---- MODULE Spec2Model ----
(***************************************************************************)
(* Model of ops/peering/generate.py: the AEGIS peering manager, which      *)
(* resolves global, node and peer YAML records into a rendering context,   *)
(* renders a BIRD configuration and writes or validates it.                *)
(*                                                                         *)
(* A YAML mapping (a Python dict) is a function from its keys to its       *)
(* values; a directory of documents is a function whose domain is the set  *)
(* of names for which a file exists.                                       *)
(***************************************************************************)
EXTENDS Integers, Sequences, FiniteSets, TLC

\* Longest declared peer list of a node record.
MaxPeers == 2
\* Largest number of output paths whose write fails in one run.
MaxFaults == 1

PeerNames == {"p1", "p2"}
NodeNames == {"edge1", "edge2"}

\* The empty mapping: what load_yaml returns for an empty document.
EmptyDict == [k \in {} |-> TRUE]

\* dict.get(key, default)
DictGet(d, key, default) == IF key \in DOMAIN d THEN d[key] ELSE default

\* dict.update(other), as a value: the keys of both, other's value on collision.
DictUpdate(d, other) ==
    [k \in (DOMAIN d) \cup (DOMAIN other) |->
        IF k \in DOMAIN other THEN other[k] ELSE d[k]]

\* Python truthiness of the value tested by "if peer.get('enabled', True)".
Truthy(v) == v = TRUE

SeqsUpTo(S, n) == UNION {[1..k -> S] : k \in 0..n}

(***************************************************************************)
(* Input documents.                                                        *)
(***************************************************************************)
GlobalDoc == [asn |-> "65000"]

Addr(p) == IF p = "p1" THEN "10.0.0.1" ELSE "10.0.0.2"
OverrideAddr == "192.0.2.9"

\* The documents a peer file may hold.
PeerDocs(p) ==
    { EmptyDict,
      [address |-> Addr(p)],
      [address |-> Addr(p), enabled |-> TRUE],
      [address |-> Addr(p), enabled |-> FALSE] }

\* The partial records a node may declare as the override of one peer.
OverrideDocs ==
    { [enabled |-> TRUE], [enabled |-> FALSE], [address |-> OverrideAddr] }

OverrideMaps == UNION {[D -> OverrideDocs] : D \in SUBSET PeerNames}

\* A node document: "peers" and, when overrides are declared, "overrides".
MkNode(peerList, overrides) ==
    IF overrides = EmptyDict
    THEN [peers |-> peerList]
    ELSE [peers |-> peerList, overrides |-> overrides]

NodeDocs ==
    {EmptyDict} \cup
    {MkNode(l, o) : l \in SeqsUpTo(PeerNames, MaxPeers), o \in OverrideMaps}

\* Node documents that reference both peers, each overriding them its own way.
SharingNodeDocs ==
    { MkNode(<<"p1", "p2">>, [p \in {"p1"} |-> [enabled |-> FALSE]]),
      MkNode(<<"p2", "p1">>,
             [p \in PeerNames |->
                 IF p = "p1" THEN [address |-> OverrideAddr]
                 ELSE [enabled |-> TRUE]]) }

\* A directory: the names that have a file, each with its document.
Directory(names, docsOf) ==
    UNION { {f \in [D -> UNION {docsOf[x] : x \in D}] :
                \A x \in D : f[x] \in docsOf[x]} : D \in SUBSET names }

(***************************************************************************)
(* State.                                                                  *)
(***************************************************************************)
VARIABLES
    globalData,     \* data/: "global.yaml" -> document, when the file exists
    nodeData,       \* data/nodes/: node name -> document
    peerData,       \* data/peers/: peer name -> document
    args,           \* the parsed command line of main
    renderFails,    \* nodes whose context the template fails to render
    ioFault,        \* output paths that cannot be written
    outFiles,       \* output files: path -> text
    tmpFiles,       \* transient files of validate_config that still exist
    stdout,         \* what has been printed
    exitStatus,     \* exit status of main; -1 while it runs
    pc,             \* position of the running call
    mode,           \* who runs build_context: "api", "one" (main --node), "all"
    node_name, global_config, node_config, idx, peers, peer,
                    \* locals of build_context; idx counts finished iterations
    loads,          \* what each iteration's load_peer found
    ret,            \* what the last direct build_context call returned or raised
    output_path, config,
                    \* locals of generate
    todo, configs,  \* generate_all: nodes still to visit, and its result
    vnext           \* main: index of the next configuration to validate

storeVars == <<globalData, nodeData, peerData>>
envVars   == <<args, renderFails, ioFault>>
bcLocals  == <<node_name, global_config, node_config, idx, peers, peer, loads>>
genLocals == <<output_path, config>>
allLocals == <<todo, configs, vnext>>
vars == <<globalData, nodeData, peerData, args, renderFails, ioFault, outFiles,
          tmpFiles, stdout, exitStatus, pc, mode, node_name, global_config,
          node_config, idx, peers, peer, loads, ret, output_path, config,
          todo, configs, vnext>>

GlobalFile == "global.yaml"
NoPath == <<>>
NoText == [tag |-> "none"]
NoRet  == [kind |-> "none", node |-> ""]

ResetBcLocals ==
    /\ node_name' = ""
    /\ global_config' = EmptyDict
    /\ node_config' = EmptyDict
    /\ idx' = 0
    /\ peers' = <<>>
    /\ peer' = EmptyDict
    /\ loads' = <<>>

(***************************************************************************)
(* Record store.                                                           *)
(***************************************************************************)
FileExists(dir, name) == name \in DOMAIN dir

\* load_yaml: FileNotFoundError when the path does not exist, else the parsed
\* document, a dict built afresh by every call.
load_yaml(dir, name) ==
    IF FileExists(dir, name)
    THEN [raised |-> FALSE, doc |-> dir[name]]
    ELSE [raised |-> TRUE, doc |-> EmptyDict]

load_peer(peer_name) == load_yaml(peerData, peer_name)

load_node(n) == load_yaml(nodeData, n)

\* A load_global_config that takes a missing global.yaml for an empty one.
load_global_config_lenient ==
    [raised |-> FALSE, doc |-> DictGet(globalData, GlobalFile, EmptyDict)]

load_global_config == load_yaml(globalData, GlobalFile)

\* list_nodes: the names of the node files
list_nodes == DOMAIN nodeData

(***************************************************************************)
(* An exception leaving build_context, render_config or generate, by who   *)
(* called: a direct caller sees it, main prints it and exits 1,            *)
(* generate_all prints it with the node's name and goes on.                *)
(***************************************************************************)
\* Where an exception is handled: generate_all's handler ends the iteration.
HandlerAborting(m) == IF m = "api" THEN "idle" ELSE "exit"

Handler(m) ==
    CASE m = "api" -> "idle"
      [] m = "one" -> "exit"
      [] m = "all" -> "ga_loop"

\* main's handlers end in sys.exit(1); generate_all's handler goes on.
StatusAfterRaiseZero(m, status) == IF m = "one" THEN 0 ELSE status

StatusAfterRaise(m, status) == IF m = "one" THEN 1 ELSE status

Raise(m, n, exc, out) ==
    /\ pc' = Handler(m)
    /\ stdout' = CASE m = "api" -> out
                   [] m = "one" -> Append(out, [kind |-> "error", exc |-> exc,
                                                src |-> "generate"])
                   [] m = "all" -> Append(out, [kind |-> "node_error", name |-> n,
                                                exc |-> exc])
    /\ exitStatus' = StatusAfterRaise(m, exitStatus)
    /\ ret' = IF m = "api" THEN [kind |-> exc, node |-> n] ELSE ret
    /\ mode' = m
    /\ ResetBcLocals

(***************************************************************************)
(* build_context                                                           *)
(***************************************************************************)
\* Lines 157-162: load the global and the node record, start the loop.
BeginBuildContext(m, n, out) ==
    IF load_global_config.raised \/ load_node(n).raised
    THEN Raise(m, n, "FileNotFoundError", out)
    ELSE /\ pc' = "bc_loop"
         /\ mode' = m
         /\ node_name' = n
         /\ global_config' = load_global_config.doc
         /\ node_config' = load_node(n).doc
         /\ idx' = 0
         /\ peers' = <<>>
         /\ peer' = EmptyDict
         /\ loads' = <<>>
         /\ stdout' = out
         /\ UNCHANGED <<exitStatus, ret>>

\* node_config.get('peers', [])
peer_names(cfg) == DictGet(cfg, "peers", <<>>)

\* node_config.get('overrides', {}).get(peer_name, {})
overrides(cfg, peer_name) ==
    DictGet(DictGet(cfg, "overrides", EmptyDict), peer_name, EmptyDict)

\* peer.update(overrides): the dict load_peer returned, after the update
ApplyOverridesBaseWins(loaded, cfg, peer_name) ==
    DictUpdate(overrides(cfg, peer_name), loaded)

ApplyOverrides(loaded, cfg, peer_name) ==
    DictUpdate(loaded, overrides(cfg, peer_name))

\* peer.get('enabled', True)
IsEnabledStored(updated, loaded) ==
    Truthy(DictGet(loaded, "enabled", TRUE))

IsEnabled(updated, loaded) ==
    Truthy(DictGet(updated, "enabled", TRUE))

\* peers.append(peer)
AppendPeer(ps, p) == Append(ps, p)

\* The peer file after peer.update: load_yaml parsed it into a dict of the
\* call's own, so the update does not reach the stored record.
StoredAfterUpdateShared(dir, peer_name, updated) ==
    [dir EXCEPT ![peer_name] = updated]

StoredAfterUpdate(dir, peer_name, updated) == dir

\* except FileNotFoundError: what is printed for a peer with no file
MissingPeerSilent(out, peer_name) == out

MissingPeerWarning(out, peer_name) ==
    Append(out, [kind |-> "warning", name |-> peer_name])

\* Lines 164-176: one iteration of the loop over peer_names.
BuildContextPeer ==
    /\ pc = "bc_loop"
    /\ idx < Len(peer_names(node_config))
    /\ LET peer_name == peer_names(node_config)[idx + 1] IN
       IF ~load_peer(peer_name).raised
       THEN LET loaded  == load_peer(peer_name).doc
                updated == ApplyOverrides(loaded, node_config, peer_name)
            IN /\ peer' = updated
               /\ peers' = IF IsEnabled(updated, loaded)
                           THEN AppendPeer(peers, updated) ELSE peers
               /\ peerData' = StoredAfterUpdate(peerData, peer_name, updated)
               /\ loads' = Append(loads, [name |-> peer_name, found |-> TRUE,
                                          doc |-> loaded])
               /\ UNCHANGED stdout
       ELSE /\ stdout' = MissingPeerWarning(stdout, peer_name)
            /\ loads' = Append(loads, [name |-> peer_name, found |-> FALSE,
                                       doc |-> EmptyDict])
            /\ UNCHANGED <<peer, peers, peerData>>
    /\ idx' = idx + 1
    /\ UNCHANGED <<globalData, nodeData, envVars, outFiles, tmpFiles, exitStatus,
                   pc, mode, node_name, global_config, node_config, ret,
                   genLocals, allLocals>>

GeneratedBy == "AEGIS Peering Manager"

\* Lines 179-185: the context (generated_at, the clock's reading, is left out)
Context ==
    [global |-> global_config, node |-> node_config, peers |-> peers,
     generated_by |-> GeneratedBy]

\* Lines 178-187: the loop is over; return the context to the caller.
BuildContextReturn ==
    /\ pc = "bc_loop"
    /\ idx = Len(peer_names(node_config))
    /\ IF mode = "api"
       THEN /\ pc' = "idle"
            /\ ret' = [kind |-> "context", node |-> node_name, context |-> Context]
            /\ ResetBcLocals
       ELSE /\ pc' = "render"
            /\ UNCHANGED <<ret, bcLocals>>
    /\ UNCHANGED <<storeVars, envVars, outFiles, tmpFiles, stdout, exitStatus,
                   mode, genLocals, allLocals>>

\* A direct call build_context(n); its output is captured from an empty stream.
ApiBuildContext(n) ==
    /\ pc = "idle"
    /\ BeginBuildContext("api", n, <<>>)
    /\ UNCHANGED <<storeVars, envVars, outFiles, tmpFiles, genLocals, allLocals>>

(***************************************************************************)
(* Specification of direct build_context calls over every small store.     *)
(***************************************************************************)
NoArgs == [list |-> FALSE, all |-> FALSE, node |-> "", output |-> NoPath,
           output_dir |-> "./output", dry_run |-> FALSE, validate |-> FALSE]

InitRun ==
    /\ tmpFiles = {}
    /\ stdout = <<>>
    /\ exitStatus = -1
    /\ node_name = ""
    /\ global_config = EmptyDict
    /\ node_config = EmptyDict
    /\ idx = 0
    /\ peers = <<>>
    /\ peer = EmptyDict
    /\ loads = <<>>
    /\ ret = NoRet
    /\ output_path = NoPath
    /\ config = NoText
    /\ todo = {}
    /\ configs = <<>>
    /\ vnext = 0

GlobalDocsOf == [x \in {GlobalFile} |-> {GlobalDoc}]
RichNodeDocsOf ==
    [x \in NodeNames |-> IF x = "edge1" THEN NodeDocs ELSE SharingNodeDocs]
PeerDocsOf == [p \in PeerNames |-> PeerDocs(p)]

Init ==
    /\ globalData \in Directory({GlobalFile}, GlobalDocsOf)
    /\ nodeData \in Directory(NodeNames, RichNodeDocsOf)
    /\ peerData \in Directory(PeerNames, PeerDocsOf)
    /\ args = NoArgs
    /\ renderFails = {}
    /\ ioFault = {}
    /\ outFiles = EmptyDict
    /\ pc = "idle"
    /\ mode = "api"
    /\ InitRun

Next ==
    \/ \E n \in NodeNames : ApiBuildContext(n)
    \/ BuildContextPeer
    \/ BuildContextReturn

Spec == Init /\ [][Next]_vars

(***************************************************************************)
(* Another process rewriting or removing a peer file while the tool runs.  *)
(***************************************************************************)
ExternalWrite ==
    /\ \E p \in PeerNames :
          \/ \E d \in PeerDocs(p) :
                /\ ~(FileExists(peerData, p) /\ peerData[p] = d)
                /\ peerData' = [x \in (DOMAIN peerData) \cup {p} |->
                                   IF x = p THEN d ELSE peerData[x]]
          \/ /\ FileExists(peerData, p)
             /\ peerData' = [x \in (DOMAIN peerData) \ {p} |-> peerData[x]]
    /\ UNCHANGED <<globalData, nodeData, envVars, outFiles, tmpFiles, stdout,
                   exitStatus, pc, mode, bcLocals, ret, genLocals, allLocals>>

InitEnv ==
    /\ globalData = [f \in {GlobalFile} |-> GlobalDoc]
    /\ nodeData \in [{"edge1"} -> NodeDocs]
    /\ peerData \in Directory(PeerNames, PeerDocsOf)
    /\ args = NoArgs
    /\ renderFails = {}
    /\ ioFault = {}
    /\ outFiles = EmptyDict
    /\ pc = "idle"
    /\ mode = "api"
    /\ InitRun

NextEnv ==
    \/ ApiBuildContext("edge1")
    \/ BuildContextPeer
    \/ BuildContextReturn
    \/ ExternalWrite

SpecEnv == InitEnv /\ [][NextEnv]_vars

(***************************************************************************)
(* Properties of build_context.                                            *)
(***************************************************************************)
\* The node's declared override of peer p, read off the node file.
DeclaredOverride(n, p) ==
    LET nd == nodeData[n] IN
    IF "overrides" \in DOMAIN nd /\ p \in DOMAIN nd.overrides
    THEN nd.overrides[p] ELSE EmptyDict

\* The node's declared peer list, read off the node file.
DeclaredPeers(n) ==
    LET nd == nodeData[n] IN IF "peers" \in DOMAIN nd THEN nd.peers ELSE <<>>

\* The override's value if it sets enabled, else the record's, else true.
EffectiveEnabled(n, p) ==
    LET v == DeclaredOverride(n, p)
        b == peerData[p]
    IN IF "enabled" \in DOMAIN v THEN v.enabled
       ELSE IF "enabled" \in DOMAIN b THEN b.enabled ELSE TRUE

\* Stored fields of p with node n's override fields on top, key by key.
Resolved(n, p) ==
    LET v == DeclaredOverride(n, p)
        b == peerData[p]
    IN [k \in (DOMAIN b) \cup (DOMAIN v) |->
           IF k \in DOMAIN v THEN v[k] ELSE b[k]]

Surviving(n) ==
    SelectSeq(DeclaredPeers(n),
              LAMBDA p : p \in DOMAIN peerData /\ EffectiveEnabled(n, p))

Missing(n) ==
    SelectSeq(DeclaredPeers(n), LAMBDA p : p \notin DOMAIN peerData)

Returned == ret.kind = "context"

\* C1: the peer sequence of the context build_context(N) returns is N's
\* declared peer list, in declared order with repeats kept, restricted to the
\* peers that have a record and whose effective enabled value is true.
C1_ResolvedSequence ==
    Returned =>
        LET s == Surviving(ret.node) IN
        /\ Len(ret.context.peers) = Len(s)
        /\ \A i \in 1..Len(s) : ret.context.peers[i] = Resolved(ret.node, s[i])

\* C1 witness: a returned context that keeps a peer stored as disabled because
\* the override enables it, and drops a peer stored as enabled because the
\* override disables it.
C1_Witness ==
    /\ Returned
    /\ Len(ret.context.peers) >= 1
    /\ \E p, q \in DOMAIN peerData :
          /\ \E i, j \in 1..Len(DeclaredPeers(ret.node)) :
                DeclaredPeers(ret.node)[i] = p /\ DeclaredPeers(ret.node)[j] = q
          /\ DictGet(peerData[p], "enabled", TRUE) = FALSE
          /\ DictGet(DeclaredOverride(ret.node, p), "enabled", FALSE) = TRUE
          /\ DictGet(peerData[q], "enabled", FALSE) = TRUE
          /\ DictGet(DeclaredOverride(ret.node, q), "enabled", TRUE) = FALSE
          /\ \E i \in 1..Len(ret.context.peers) :
                ret.context.peers[i] = Resolved(ret.node, p)

\* C2: no step of a build_context call changes a stored record; every entry of
\* a returned context is some stored peer's fields combined with the override
\* of the node that was resolved, and of no other node; and a node resolved
\* again returns the same peer sequence.
C2_StoreUntouched ==
    [][ /\ peerData' = peerData
        /\ nodeData' = nodeData
        /\ globalData' = globalData
        /\ (ret'.kind = "context" =>
               \A i \in 1..Len(ret'.context.peers) :
                   \E p \in DOMAIN peerData :
                       ret'.context.peers[i] = Resolved(ret'.node, p))
        /\ (Returned /\ ret'.kind = "context" /\ ret'.node = ret.node =>
               ret'.context.peers = ret.context.peers) ]_vars

\* C2 witness: edge2 has been resolved, and the running resolution of edge1 has
\* just applied its own, different override to a peer edge2 overrides too.
C2_Witness ==
    /\ Returned
    /\ ret.node = "edge2"
    /\ pc = "bc_loop"
    /\ node_name = "edge1"
    /\ idx >= 1
    /\ loads[idx].found
    /\ LET p == loads[idx].name IN
          /\ DeclaredOverride("edge1", p) # EmptyDict
          /\ DeclaredOverride("edge2", p) # EmptyDict
          /\ DOMAIN DeclaredOverride("edge1", p) # DOMAIN DeclaredOverride("edge2", p)
          /\ peer = Resolved("edge1", p)
          /\ DOMAIN peer # DOMAIN peerData[p]

\* C3: the dict an iteration resolves has the keys of the peer record B and of
\* the override V; V's value under each key of V, B's under each key only in
\* B; and with V empty it is B.
C3_FieldMerge ==
    (pc = "bc_loop" /\ idx >= 1 /\ loads[idx].found) =>
        LET p == loads[idx].name
            B == peerData[p]
            V == DeclaredOverride(node_name, p)
        IN /\ DOMAIN peer = (DOMAIN B) \cup (DOMAIN V)
           /\ \A k \in DOMAIN V : peer[k] = V[k]
           /\ \A k \in (DOMAIN B) \ (DOMAIN V) : peer[k] = B[k]
           /\ (V = EmptyDict => peer = B)

\* C3 witness: an iteration whose override collides with the record on one key
\* while another key of the record passes through.
C3_Witness ==
    /\ pc = "bc_loop"
    /\ idx >= 1
    /\ loads[idx].found
    /\ LET p == loads[idx].name IN
          /\ DOMAIN peerData[p] = {"address", "enabled"}
          /\ DOMAIN DeclaredOverride(node_name, p) = {"address"}
          /\ peer.address = OverrideAddr
          /\ peer.enabled = peerData[p].enabled

\* C4: with the global and the node record present build_context returns a
\* context, whatever peers are missing; each missing peer is left out, a
\* warning naming it is printed, and the peers after it are still resolved.
\* The call raises only when the global or the node record is absent.
C4_MissingPeerTolerated ==
    /\ (ret.kind # "none" =>
           (Returned <=> (FileExists(globalData, GlobalFile)
                            /\ FileExists(nodeData, ret.node))))
    /\ (Returned /\ pc = "idle" =>
           /\ Len(stdout) = Len(Missing(ret.node))
           /\ \A i \in 1..Len(stdout) :
                 stdout[i] = [kind |-> "warning", name |-> Missing(ret.node)[i]]
           /\ Len(ret.context.peers) = Len(Surviving(ret.node)))
    /\ (pc = "bc_loop" => Len(loads) = idx)

\* C4 witness: a context returned for a peer list whose first peer has no
\* record and whose second peer was resolved.
C4_Witness ==
    /\ Returned
    /\ pc = "idle"
    /\ Len(DeclaredPeers(ret.node)) = 2
    /\ DeclaredPeers(ret.node)[1] \notin DOMAIN peerData
    /\ DeclaredPeers(ret.node)[2] \in DOMAIN peerData
    /\ Len(ret.context.peers) = 1
    /\ stdout = <<[kind |-> "warning", name |-> DeclaredPeers(ret.node)[1]]>>

\* C10: within one build_context call, two loads of the same peer name give
\* the same result, also when another process rewrites the peer file between
\* them.
C10_ConsistentLoads ==
    \A i, j \in 1..Len(loads) :
        loads[i].name = loads[j].name =>
            /\ loads[i].found = loads[j].found
            /\ loads[i].doc = loads[j].doc

(***************************************************************************)
(* render_config, generate, generate_all, validate_config and main.        *)
(***************************************************************************)
\* args.output of the runs that give one
OutArg == <<"/etc/bird", "bird.conf">>
\* args.output_dir
ArgDir == "./output"
\* self.output_dir
OwnOutputDir == "BASE/output"
NoDir == ""

\* output_dir / node_name / "bird.conf"
NodePath(dir, n) == <<dir, n>>

OutPaths == {OutArg} \cup {NodePath(d, n) : d \in {ArgDir, OwnOutputDir}, n \in NodeNames}

OldText == [tag |-> "old"]
PartialText == [tag |-> "partial"]

\* template.render(**context): the text is a function of the bound variables
Render(ctx) ==
    [tag |-> "rendered", global |-> ctx.global, node |-> ctx.node,
     peers |-> ctx.peers]

\* open(path, 'w') and f.write(text)
WriteFile(files, path, text) ==
    [f \in (DOMAIN files) \cup {path} |-> IF f = path THEN text ELSE files[f]]

\* Lines 198-200: render the context build_context returned.
RenderConfig ==
    /\ pc = "render"
    /\ IF node_name \in renderFails
       THEN /\ Raise(mode, node_name, "TemplateError", stdout)
            /\ output_path' = NoPath
            /\ config' = NoText
       ELSE /\ config' = Render(Context)
            /\ pc' = "write"
            /\ UNCHANGED <<stdout, exitStatus, ret, mode, bcLocals, output_path>>
    /\ UNCHANGED <<storeVars, envVars, outFiles, tmpFiles, allLocals>>

\* Lines 214-221: write the text when a path was given, and return it.
GenerateWrite ==
    /\ pc = "write"
    /\ IF output_path # NoPath /\ output_path \in ioFault
       THEN \* open or write raises OSError; the file is untouched (open
            \* failed) or left truncated (the write failed)
            /\ Raise(mode, node_name, "OSError", stdout)
            /\ outFiles' \in {outFiles, WriteFile(outFiles, output_path, PartialText)}
            /\ output_path' = NoPath
            /\ config' = NoText
            /\ UNCHANGED configs
       ELSE /\ outFiles' = IF output_path # NoPath
                           THEN WriteFile(outFiles, output_path, config)
                           ELSE outFiles
            /\ stdout' = IF output_path # NoPath
                         THEN Append(stdout, [kind |-> "generated", path |-> output_path])
                         ELSE stdout
            /\ IF mode = "all"
               THEN \* line 238: configs[node_name] = the returned text
                    /\ configs' = Append(configs, [node |-> node_name, config |-> config])
                    /\ config' = NoText
                    /\ output_path' = NoPath
                    /\ pc' = "ga_loop"
               ELSE /\ pc' = "main_one"
                    /\ UNCHANGED <<configs, config, output_path>>
            /\ ResetBcLocals
            /\ UNCHANGED <<exitStatus, ret, mode>>
    /\ UNCHANGED <<storeVars, envVars, tmpFiles, todo, vnext>>

\* Line 232: the directory generate_all writes under
generate_all_dir(output_dir) ==
    IF output_dir # NoDir THEN output_dir ELSE OwnOutputDir

\* Line 363: what main hands to generate_all
MainAllDir == IF ~args.dry_run THEN args.output_dir ELSE NoDir

\* Line 380: what main hands to generate
MainOnePath ==
    IF args.output # NoPath /\ ~args.dry_run THEN args.output ELSE NoPath

\* Lines 235-240: the next node of list_nodes (glob order is not fixed).
GenerateAllNext ==
    /\ pc = "ga_loop"
    /\ todo # {}
    /\ \E n \in todo :
          /\ todo' = todo \ {n}
          /\ BeginBuildContext("all", n, stdout)
          /\ output_path' = IF pc' = "ga_loop" THEN NoPath
                             ELSE NodePath(generate_all_dir(MainAllDir), n)
    /\ UNCHANGED <<storeVars, envVars, outFiles, tmpFiles, config, configs, vnext>>

(***************************************************************************)
(* validate_config: how a call ends.                                       *)
(***************************************************************************)
ValidateOutcomes ==
    { "create_error",    \* NamedTemporaryFile raises: no file was created
      "write_error",     \* f.write (or the close of the with block) raises
      "valid",           \* bird exits 0
      "invalid",         \* bird exits nonzero
      "not_installed",   \* subprocess.run raises FileNotFoundError
      "timeout",         \* subprocess.run raises TimeoutExpired
      "error" }          \* subprocess.run raises anything else

ValidateRaises(o) == o \in {"create_error", "write_error", "error"}

\* Lines 256-284: the transient files left when the call ends with outcome o.
\* The with block of lines 256-258 is outside the try whose finally unlinks.
TmpAfterValidate(files, f, o) ==
    CASE o = "create_error" -> files
      [] o = "write_error"  -> files \cup {f}
      [] OTHER              -> (files \cup {f}) \ {f}

\* What validate_config prints, or main prints for what it raises.
ValidateOutput(out, o) ==
    IF ValidateRaises(o)
    THEN Append(out, [kind |-> "error", exc |-> "OSError", src |-> "validate_config"])
    ELSE Append(out, [kind |-> "validate", result |-> o])

(***************************************************************************)
(* main                                                                    *)
(***************************************************************************)
\* Lines 351-358: --list
MainList ==
    /\ pc = "start"
    /\ args.list
    /\ stdout' = Append(stdout, [kind |-> "listing"])
    /\ exitStatus' = 0
    /\ pc' = "exit"
    /\ UNCHANGED <<storeVars, envVars, outFiles, tmpFiles, mode, bcLocals, ret,
                   genLocals, allLocals>>

\* Lines 360-363: --all, entering generate_all
MainAll ==
    /\ pc = "start"
    /\ ~args.list
    /\ args.all
    /\ mode' = "all"
    /\ todo' = list_nodes
    /\ configs' = <<>>
    /\ pc' = "ga_loop"
    /\ UNCHANGED <<storeVars, envVars, outFiles, tmpFiles, stdout, exitStatus,
                   bcLocals, ret, genLocals, vnext>>

PrintConfigs(out, cs) ==
    out \o [i \in 1..Len(cs) |-> [kind |-> "config", text |-> cs[i].config]]

\* Lines 242, 365-372: generate_all returns; --dry-run prints every text
MainAllPrint ==
    /\ pc = "ga_loop"
    /\ todo = {}
    /\ stdout' = IF args.dry_run THEN PrintConfigs(stdout, configs) ELSE stdout
    /\ IF args.validate /\ configs # <<>>
       THEN /\ pc' = "validate_all"
            /\ vnext' = 1
            /\ UNCHANGED exitStatus
       ELSE /\ pc' = "exit"
            /\ exitStatus' = 0
            /\ UNCHANGED vnext
    /\ UNCHANGED <<storeVars, envVars, outFiles, tmpFiles, mode, bcLocals, ret,
                   genLocals, todo, configs>>

\* Lines 374-376: validate the next text of configs
MainAllValidate ==
    /\ pc = "validate_all"
    /\ \E o \in ValidateOutcomes :
          /\ tmpFiles' = TmpAfterValidate(tmpFiles, vnext, o)
          /\ stdout' = ValidateOutput(stdout, o)
          /\ IF ValidateRaises(o)
             THEN /\ pc' = "exit"
                  /\ exitStatus' = 1
                  /\ UNCHANGED vnext
             ELSE IF vnext = Len(configs)
                  THEN /\ pc' = "exit"
                       /\ exitStatus' = 0
                       /\ UNCHANGED vnext
                  ELSE /\ vnext' = vnext + 1
                       /\ UNCHANGED <<pc, exitStatus>>
    /\ UNCHANGED <<storeVars, envVars, outFiles, mode, bcLocals, ret, genLocals,
                   todo, configs>>

\* Lines 378-381: --node, entering generate
MainNode ==
    /\ pc = "start"
    /\ ~args.list
    /\ ~args.all
    /\ args.node # ""
    /\ BeginBuildContext("one", args.node, stdout)
    /\ output_path' = IF pc' = "exit" THEN NoPath ELSE MainOnePath
    /\ UNCHANGED <<storeVars, envVars, outFiles, tmpFiles, config, allLocals>>

\* Lines 383-386: generate returned; print the text unless it went to a file
MainOnePrint ==
    /\ pc = "main_one"
    /\ stdout' = IF args.dry_run \/ args.output = NoPath
                 THEN Append(stdout, [kind |-> "config", text |-> config])
                 ELSE stdout
    /\ IF args.validate
       THEN /\ pc' = "validate_one"
            /\ UNCHANGED exitStatus
       ELSE /\ pc' = "exit"
            /\ exitStatus' = 0
    /\ UNCHANGED <<storeVars, envVars, outFiles, tmpFiles, mode, bcLocals, ret,
                   genLocals, allLocals>>

\* Line 387: validate the text
MainOneValidate ==
    /\ pc = "validate_one"
    /\ \E o \in ValidateOutcomes :
          /\ tmpFiles' = TmpAfterValidate(tmpFiles, 1, o)
          /\ stdout' = ValidateOutput(stdout, o)
          /\ exitStatus' = IF ValidateRaises(o) THEN 1 ELSE 0
    /\ pc' = "exit"
    /\ UNCHANGED <<storeVars, envVars, outFiles, mode, bcLocals, ret, genLocals,
                   allLocals>>

\* Lines 388-390: neither --list, --all nor --node
MainHelp ==
    /\ pc = "start"
    /\ ~args.list
    /\ ~args.all
    /\ args.node = ""
    /\ stdout' = Append(stdout, [kind |-> "help"])
    /\ exitStatus' = 1
    /\ pc' = "exit"
    /\ UNCHANGED <<storeVars, envVars, outFiles, tmpFiles, mode, bcLocals, ret,
                   genLocals, allLocals>>

(***************************************************************************)
(* Specification of one run of main, the manager constructed.              *)
(***************************************************************************)
ArgsSet ==
    { [list |-> TRUE, all |-> FALSE, node |-> "", output |-> NoPath,
       output_dir |-> ArgDir, dry_run |-> FALSE, validate |-> FALSE] }
    \cup
    { [list |-> FALSE, all |-> a, node |-> n, output |-> o,
       output_dir |-> ArgDir, dry_run |-> d, validate |-> v] :
         a \in BOOLEAN, n \in NodeNames \cup {""}, o \in {NoPath, OutArg},
         d \in BOOLEAN, v \in BOOLEAN }

\* edge1 lists p1, p2 and disables p2; edge2 lists the peers the other way.
CliNodeDocsOf ==
    [x \in NodeNames |->
        IF x = "edge1"
        THEN {MkNode(<<"p1", "p2">>, [p \in {"p2"} |-> [enabled |-> FALSE]])}
        ELSE {MkNode(<<"p2", "p1">>, EmptyDict)}]

CliPeerDocsOf == [p \in PeerNames |-> {[address |-> Addr(p), enabled |-> TRUE]}]

FaultSets == {S \in SUBSET OutPaths : Cardinality(S) <= MaxFaults}

InitCli ==
    /\ globalData \in Directory({GlobalFile}, GlobalDocsOf)
    /\ nodeData \in Directory(NodeNames, CliNodeDocsOf)
    /\ peerData \in {d \in Directory(PeerNames, CliPeerDocsOf) : "p1" \in DOMAIN d}
    /\ args \in ArgsSet
    /\ renderFails \in SUBSET NodeNames
    /\ ioFault \in FaultSets
    /\ pc = "start"
    /\ mode = "one"
    /\ outFiles \in {[f \in pre |-> OldText] : pre \in {{}, OutPaths}}
    /\ InitRun

NextCli ==
    \/ MainList
    \/ MainAll
    \/ MainNode
    \/ MainHelp
    \/ GenerateAllNext
    \/ BuildContextPeer
    \/ BuildContextReturn
    \/ RenderConfig
    \/ GenerateWrite
    \/ MainAllPrint
    \/ MainAllValidate
    \/ MainOnePrint
    \/ MainOneValidate

SpecCli == InitCli /\ [][NextCli]_vars

(***************************************************************************)
(* Properties of generate, generate_all, validate_config and main.         *)
(***************************************************************************)
OneMode == ~args.list /\ ~args.all /\ args.node # ""
AllMode == ~args.list /\ args.all

GlobalPresent == GlobalFile \in DOMAIN globalData

\* No output file was created, truncated or written: whatever exists is a
\* file that was there before the run, with the text it had.
Untouched == \A f \in DOMAIN outFiles : outFiles[f] = OldText

Printed(kinds) == {i \in 1..Len(stdout) : stdout[i].kind \in kinds}

\* The text a node's records render to.
ExpectedText(n) ==
    [tag |-> "rendered", global |-> globalData[GlobalFile], node |-> nodeData[n],
     peers |-> [i \in 1..Len(Surviving(n)) |-> Resolved(n, Surviving(n)[i])]]

\* C5: generate with the global record absent, or with no record of the node,
\* raises FileNotFoundError (main exits 1 on it; generate_all logs it for the
\* node) and leaves nothing behind: no text, no context handed to the
\* template, and the destination neither created nor modified.
C5_NotFoundNoOutput ==
    /\ (OneMode /\ (~GlobalPresent \/ args.node \notin DOMAIN nodeData) =>
           /\ pc \in {"start", "exit"}
           /\ Untouched
           /\ config = NoText
           /\ (pc = "exit" =>
                  /\ exitStatus = 1
                  /\ stdout = <<[kind |-> "error", exc |-> "FileNotFoundError",
                                 src |-> "generate"]>>))
    /\ (AllMode /\ ~GlobalPresent =>
           /\ pc \in {"start", "ga_loop", "exit"}
           /\ Untouched
           /\ config = NoText
           /\ configs = <<>>
           /\ \A i \in 1..Len(stdout) :
                 stdout[i].kind = "node_error" /\ stdout[i].exc = "FileNotFoundError")

\* C5 witness: the node and both peers have records, an output path with an
\* existing file was given, and the run ended on the missing global record.
C5_Witness ==
    /\ OneMode
    /\ ~GlobalPresent
    /\ args.node \in DOMAIN nodeData
    /\ DOMAIN peerData = PeerNames
    /\ args.output = OutArg
    /\ ~args.dry_run
    /\ OutArg \in DOMAIN outFiles
    /\ pc = "exit"
    /\ exitStatus = 1

\* The path generate_all hands to generate for node n in this run.
AllPath(n) == <<IF args.dry_run THEN OwnOutputDir ELSE args.output_dir, n>>

NodeSucceeds(n) ==
    /\ GlobalPresent
    /\ n \notin renderFails
    /\ AllPath(n) \notin ioFault

GenerateAllOver ==
    AllMode /\ (pc \in {"validate_all", "exit"} \/ (pc = "ga_loop" /\ todo = {}))

ConfigNodes == {configs[i].node : i \in 1..Len(configs)}
ErrorNodes == {stdout[i].name : i \in Printed({"node_error"})}

\* C6: when generate_all is over, every listed node was attempted: it has an
\* entry in the result or a logged error naming it, never both, and the result
\* holds exactly the nodes whose resolution, rendering and write succeeded,
\* each with its own text.
C6_AllNodesAttempted ==
    GenerateAllOver =>
        /\ ConfigNodes = {n \in DOMAIN nodeData : NodeSucceeds(n)}
        /\ ErrorNodes = (DOMAIN nodeData) \ ConfigNodes
        /\ Len(configs) = Cardinality(ConfigNodes)
        /\ Cardinality(Printed({"node_error"})) = Cardinality(ErrorNodes)
        /\ \A i \in 1..Len(configs) :
              configs[i].config = ExpectedText(configs[i].node)

\* C6 witness: generate_all is over, one node failed and the other is in the
\* result.
C6_Witness ==
    /\ GenerateAllOver
    /\ Cardinality(ConfigNodes) = 1
    /\ Cardinality(ErrorNodes) = 1

\* C7: in dry-run mode no output file is created or written, and the text of
\* each generated node is printed.
C7_DryRunWritesNothing ==
    args.dry_run =>
        /\ Untouched
        /\ Printed({"generated"}) = {}
        /\ (pc = "exit" /\ exitStatus = 0 /\ AllMode =>
               \A i \in 1..Len(configs) :
                   \E j \in Printed({"config"}) : stdout[j].text = configs[i].config)

\* A fatal error of the run: the global record or a node record to resolve is
\* missing, or the write of a rendered text fails.
OneFatal ==
    \/ ~GlobalPresent
    \/ args.node \notin DOMAIN nodeData
    \/ (args.node \notin renderFails /\ MainOnePath # NoPath /\ MainOnePath \in ioFault)

AllFatal ==
    \E n \in DOMAIN nodeData :
        ~GlobalPresent \/ (n \notin renderFails /\ AllPath(n) \in ioFault)

ValidateRaised ==
    \E i \in Printed({"error"}) : stdout[i].src = "validate_config"

\* C8 as stated: generate-one and generate-all both exit 1 on a fatal error.
C8_ExitOneOnFatal ==
    pc = "exit" =>
        /\ (OneMode /\ OneFatal => exitStatus = 1)
        /\ (AllMode /\ AllFatal => exitStatus = 1)

\* C8, amended: generate-one exits 1 when the global or the node record is
\* missing or the write fails (or rendering or validate_config raises) and 0
\* otherwise; generate-all exits 0 whatever nodes failed, their errors being
\* caught in generate_all, and 1 only when validate_config raises.
C8_ExitStatus ==
    pc = "exit" =>
        /\ (OneMode =>
               (exitStatus = 1 <=>
                   OneFatal \/ args.node \in renderFails \/ ValidateRaised))
        /\ (AllMode => (exitStatus = 1 <=> ValidateRaised))
        /\ exitStatus \in {0, 1}

\* C8 witness: a generate-all run that ended with status 0 although the global
\* record is missing and every node's generation failed.
C8_Witness ==
    /\ pc = "exit"
    /\ AllMode
    /\ ~GlobalPresent
    /\ DOMAIN nodeData = NodeNames
    /\ ErrorNodes = NodeNames
    /\ exitStatus = 0

\* C9: whenever validate_config has returned or raised, the transient file it
\* created is gone.
C9_TransientRemoved == tmpFiles = {}

====
